---- MODULE Spec2Model ----
(***************************************************************************)
(* json-to-crystal: a JSON document is turned into the text of Crystal     *)
(* classes with JSON mappings.  Two implementations live in the            *)
(* repository: the lodash/JavaScript one (classes Util, CrystalNamedTuple, *)
(* CrystalArray, CrystalClass, JsonToCrystal) and the older TypeScript one *)
(* (one class JsonToCrystal with parse, parseScope, parseClass, format,    *)
(* crystalType, arrayType).  Both are modelled.                            *)
(*                                                                         *)
(* A JavaScript string is a sequence of one-character strings.  Text that  *)
(* the program builds from template literals is a sequence of tokens: the  *)
(* literal pieces of the template ("Array(", " | ", "Int32", ...) and the  *)
(* characters of the keys put into it.  Str(toks) is the text itself.      *)
(***************************************************************************)
EXTENDS Integers, Sequences, FiniteSets, TLC

VARIABLES scope, options, pc, result

vars == <<scope, options, pc, result>>

--------------------------------------------------------------------------
(* Characters and strings *)

LowerChars == <<"a","b","c","d","e","f","g","h","i","j","k","l","m",
                "n","o","p","q","r","s","t","u","v","w","x","y","z">>

UpperChars == <<"A","B","C","D","E","F","G","H","I","J","K","L","M",
                "N","O","P","Q","R","S","T","U","V","W","X","Y","Z">>

DigitChars == <<"0","1","2","3","4","5","6","7","8","9">>

IsLower(c) == \E i \in 1..Len(LowerChars) : LowerChars[i] = c

IsUpper(c) == \E i \in 1..Len(UpperChars) : UpperChars[i] = c

IsDigit(c) == \E i \in 1..Len(DigitChars) : DigitChars[i] = c

DigitVal(c) == (CHOOSE i \in 1..Len(DigitChars) : DigitChars[i] = c) - 1

ToLowerChar(c) ==
    IF IsUpper(c)
    THEN LowerChars[CHOOSE i \in 1..Len(UpperChars) : UpperChars[i] = c]
    ELSE c

ToUpperChar(c) ==
    IF IsLower(c)
    THEN UpperChars[CHOOSE i \in 1..Len(LowerChars) : LowerChars[i] = c]
    ELSE c

ToLowerCase(s) == [i \in 1..Len(s) |-> ToLowerChar(s[i])]

RECURSIVE Str(_)
Str(toks) == IF toks = <<>> THEN "" ELSE Head(toks) \o Str(Tail(toks))

RECURSIVE Flatten(_)
Flatten(ss) == IF ss = <<>> THEN <<>> ELSE Head(ss) \o Flatten(Tail(ss))

RECURSIVE Join(_, _)
Join(ss, sep) ==
    IF ss = <<>> THEN <<>>
    ELSE IF Len(ss) = 1 THEN ss[1]
    ELSE ss[1] \o sep \o Join(Tail(ss), sep)

--------------------------------------------------------------------------
(* lodash: words, snakeCase, camelCase, upperFirst on ASCII strings.       *)
(* A word is found at each position by the alternatives of lodash's        *)
(* reUnicodeWord in their order; on ASCII text every character that is not *)
(* a letter or a digit is a break.  hasUnicodeWord only chooses between    *)
(* this and the runs of letters and digits, which agree where it is false. *)

CharClass(c) ==
    IF IsLower(c) THEN "lower"
    ELSE IF IsUpper(c) THEN "upper"
    ELSE IF IsDigit(c) THEN "digit"
    ELSE "break"

\* The last index of the run of characters of class cls that holds s[i].
RECURSIVE RunEnd(_, _, _)
RunEnd(s, i, cls) ==
    IF i + 1 <= Len(s) /\ CharClass(s[i + 1]) = cls
    THEN RunEnd(s, i + 1, cls)
    ELSE i

IsWordChar(c) == IsLower(c) \/ IsUpper(c) \/ IsDigit(c) \/ c = "_"

\* rsOrdLower / rsOrdUpper: \d*(?:1st|2nd|3rd|(?![123])\dth)(?=\b|[A-Z_])
OrdSuffix(d) ==
    IF d = "1" THEN <<"s","t">>
    ELSE IF d = "2" THEN <<"n","d">>
    ELSE IF d = "3" THEN <<"r","d">>
    ELSE <<"t","h">>

OrdinalAt(s, j) ==
    /\ j + 2 <= Len(s)
    /\ \/ /\ <<s[j + 1], s[j + 2]>> = OrdSuffix(s[j])
          /\ \/ j + 3 > Len(s)
             \/ ~IsWordChar(s[j + 3])
             \/ IsUpper(s[j + 3])
             \/ s[j + 3] = "_"
       \/ /\ IsUpper(s[j + 1])
          /\ <<ToLowerChar(s[j + 1]), ToLowerChar(s[j + 2])>> = OrdSuffix(s[j])
          /\ IsUpper(s[j + 2])
          /\ \/ j + 3 > Len(s)
             \/ ~IsWordChar(s[j + 3])
             \/ IsLower(s[j + 3])
             \/ s[j + 3] = "_"

\* The last index of the word that starts at i (s[i] a letter or a digit).
WordEnd(s, i) ==
    IF IsDigit(s[i])
    THEN LET j == RunEnd(s, i, "digit")
         IN  IF OrdinalAt(s, j) THEN j + 2 ELSE j
    ELSE IF IsLower(s[i])
    THEN RunEnd(s, i, "lower")
    ELSE LET j == RunEnd(s, i, "upper")
         IN  IF j + 1 <= Len(s) /\ IsLower(s[j + 1])
             THEN IF j = i THEN RunEnd(s, j + 1, "lower") ELSE j - 1
             ELSE j

RECURSIVE WordsFrom(_, _)
WordsFrom(s, i) ==
    IF i > Len(s) THEN <<>>
    ELSE IF CharClass(s[i]) = "break"
    THEN WordsFrom(s, i + 1)
    ELSE LET j == WordEnd(s, i)
         IN  <<SubSeq(s, i, j)>> \o WordsFrom(s, j + 1)

\* _.words(deburr(string).replace(reApos, ''))
Words(s) == WordsFrom(SelectSeq(s, LAMBDA c : c # "'"), 1)

SnakeCase(s) == Join([i \in 1..Len(Words(s)) |-> ToLowerCase(Words(s)[i])], <<"_">>)

UpperFirst(s) == IF s = <<>> THEN <<>> ELSE <<ToUpperChar(s[1])>> \o Tail(s)

CamelCase(s) ==
    LET ws == Words(s)
    IN  Flatten([i \in 1..Len(ws) |->
                   IF i = 1 THEN ToLowerCase(ws[i])
                   ELSE UpperFirst(ToLowerCase(ws[i]))])

--------------------------------------------------------------------------
(* Util.formatKey / JsonToCrystal.format *)

AllDigits(s) == s # <<>> /\ \A i \in 1..Len(s) : IsDigit(s[i])

DigitWord(c) ==
    CASE c = "0" -> <<"z","e","r","o","_">>
      [] c = "1" -> <<"o","n","e","_">>
      [] c = "2" -> <<"t","w","o","_">>
      [] c = "3" -> <<"t","h","r","e","e","_">>
      [] c = "4" -> <<"f","o","u","r","_">>
      [] c = "5" -> <<"f","i","v","e","_">>
      [] c = "6" -> <<"s","i","x","_">>
      [] c = "7" -> <<"s","e","v","e","n","_">>
      [] c = "8" -> <<"e","i","g","h","t","_">>
      [] c = "9" -> <<"n","i","n","e","_">>

formatKey(str) ==
    IF str = <<>> THEN <<>>
    ELSE IF AllDigits(str) THEN SnakeCase(<<"n","u","m">> \o str)
    ELSE IF IsDigit(str[1]) THEN SnakeCase(DigitWord(str[1]) \o Tail(str))
    ELSE SnakeCase(str)

--------------------------------------------------------------------------
(* JSON values.  A number is sign and magnitude, the magnitude            *)
(* hi * 65536 + lo plus the fraction digits (without trailing zeros), so   *)
(* that the values around 2^31 are exact.  An object holds its keys in the *)
(* order Object.keys gives them.                                           *)

Num(neg, hi, lo, frac) == [neg |-> neg, hi |-> hi, lo |-> lo, frac |-> frac]

Zero == Num(FALSE, 0, 0, <<>>)

JV(t, b, num, s, keys, items) ==
    [t |-> t, b |-> b, num |-> num, s |-> s, keys |-> keys, items |-> items]

JNull == JV("null", FALSE, Zero, <<>>, <<>>, <<>>)

JBool(b) == JV("boolean", b, Zero, <<>>, <<>>, <<>>)

JNum(n) == JV("number", FALSE, n, <<>>, <<>>, <<>>)

JStr(s) == JV("string", FALSE, Zero, s, <<>>, <<>>)

JArr(items) == JV("array", FALSE, Zero, <<>>, <<>>, items)

JObj(keys, items) == JV("object", FALSE, Zero, <<>>, keys, items)

ObjectKeys(obj) == obj.keys

\* obj[key]
Prop(obj, key) == obj.items[CHOOSE i \in 1..Len(obj.keys) : obj.keys[i] = key]

RECURSIVE FracLess(_, _)
FracLess(f, g) ==
    IF g = <<>> THEN FALSE
    ELSE IF f = <<>> THEN TRUE
    ELSE IF Head(f) # Head(g) THEN DigitVal(Head(f)) < DigitVal(Head(g))
    ELSE FracLess(Tail(f), Tail(g))

MagLess(a, b) ==
    \/ a.hi < b.hi
    \/ a.hi = b.hi /\ a.lo < b.lo
    \/ a.hi = b.hi /\ a.lo = b.lo /\ FracLess(a.frac, b.frac)

IsNegative(a) == a.neg /\ ~(a.hi = 0 /\ a.lo = 0 /\ a.frac = <<>>)

\* a < b on JavaScript numbers
NumLess(a, b) ==
    IF IsNegative(a)
    THEN IF IsNegative(b) THEN MagLess(b, a) ELSE TRUE
    ELSE IF IsNegative(b) THEN FALSE ELSE MagLess(a, b)

\* The literals -2147483648 and 2147483647 of crystalType
LowerLimit == Num(TRUE, 32768, 0, <<>>)

UpperLimit == Num(FALSE, 32767, 65535, <<>>)

\* val % 1 === 0
IsIntegral(n) == n.frac = <<>>

--------------------------------------------------------------------------
(* The JavaScript implementation: Util, CrystalNamedTuple, CrystalArray,   *)
(* CrystalClass                                                            *)

crystalType(val) ==
    IF val.t = "null" THEN "JSON::Any"
    ELSE IF val.t = "string" THEN "String"
    ELSE IF val.t = "number"
    THEN IF IsIntegral(val.num)
         THEN IF NumLess(LowerLimit, val.num) /\ NumLess(val.num, UpperLimit)
              THEN "Int32"
              ELSE "Int64"
         ELSE "Float64"
    ELSE IF val.t = "boolean" THEN "Bool"
    ELSE IF val.t = "array" THEN "array"
    ELSE "class"

\* CrystalNamedTuple.toString, transformKeys being Util.formatKey
NamedTupleToString(properties) ==
    LET keys == ObjectKeys(properties)
        pairs == [i \in 1..Len(keys) |->
                    formatKey(keys[i]) \o <<": ">>
                       \o <<crystalType(Prop(properties, keys[i]))>>]
    IN  <<"NamedTuple(">> \o Join(pairs, <<", ">>) \o <<")">>

\* Uniq without the removal of duplicates
UniqKeepsAll(types) == types

\* _.uniq on strings: the first occurrence of each text is kept
RECURSIVE Uniq(_)
Uniq(types) ==
    IF types = <<>> THEN <<>>
    ELSE LET init == Uniq(SubSeq(types, 1, Len(types) - 1))
             last == types[Len(types)]
         IN  IF \E i \in 1..Len(init) : Str(init[i]) = Str(last)
             THEN init
             ELSE Append(init, last)

\* if (unique.length === 0) unique.push("JSON::Any")
OrAny(unique) == IF Len(unique) = 0 THEN <<<<"JSON::Any">>>> ELSE unique

\* CrystalArray.toString
RECURSIVE ArrayToString(_)
ArrayToString(rawArr) ==
    LET types == [i \in 1..Len(rawArr.items) |->
                    LET v == crystalType(rawArr.items[i])
                    IN  IF v = "class" THEN NamedTupleToString(rawArr.items[i])
                        ELSE IF v = "array" THEN ArrayToString(rawArr.items[i])
                        ELSE <<v>>]
        unique == OrAny(Uniq(types))
    IN  <<"Array(">> \o Join(unique, <<" | ">>) \o <<")">>

\* One line of the output, by the template that writes it.
Line(kind, indent, name, key, origKey, hasKey, nilable, type, comma) ==
    [kind |-> kind, indent |-> indent, name |-> name, key |-> key,
     origKey |-> origKey, hasKey |-> hasKey, nilable |-> nilable,
     type |-> type, comma |-> comma]

Plain(kind, indent) == Line(kind, indent, <<>>, <<>>, <<>>, FALSE, FALSE, <<>>, FALSE)

ClassLine(name, indent) == Line("class", indent, name, <<>>, <<>>, FALSE, FALSE, <<>>, FALSE)

Blank == Plain("blank", 0)

\* CrystalClass._formatClassName
FormatClassName(name) == UpperFirst(CamelCase(name))

\* CrystalClass._defaultOptions over { baseIndent }
SubclassOptions(baseIndent) ==
    [baseIndent |-> baseIndent, ignoreKeys |-> {}, allNilable |-> FALSE,
     compact |-> FALSE]

\* CrystalClass._spacing
Spacing(opts) == IF opts.compact THEN <<>> ELSE <<Blank>>

Undefined == [defined |-> FALSE, lines |-> <<>>]

Defined(lines) == [defined |-> TRUE, lines |-> lines]

\* What Array.prototype.join makes of one element: undefined is ''
Joined(r) == IF r.defined THEN r.lines ELSE <<Blank>>

\* .filter(_.negate(this.options.ignoreKeys)): the predicate is the set of
\* keys it holds of
FilterKeys(keys, opts) == SelectSeq(keys, LAMBDA k : k \notin opts.ignoreKeys)

\* new CrystalClass(properties, name, options).toString()
RECURSIVE ClassToString(_, _, _)
ClassToString(properties, rawName, opts) ==
    LET name == FormatClassName(rawName)
        base == opts.baseIndent
        keys == ObjectKeys(properties)
        kept == FilterKeys(keys, opts)
        IsSub(x) == crystalType(Prop(properties, x)) = "class"
        Item(i) ==
            LET x == kept[i]
                key == formatKey(x)
                t == crystalType(Prop(properties, x))
                type == IF t = "class" THEN FormatClassName(key)
                        ELSE IF t = "array" THEN ArrayToString(Prop(properties, x))
                        ELSE <<t>>
            IN  Line("field", base + 2, <<>>, key, x, key # x,
                     opts.allNilable, type, i - 1 < Len(keys) - 1)
        subs == SelectSeq(kept, IsSub)
        Sub(i) == ClassToString(Prop(properties, subs[i]), formatKey(subs[i]),
                                SubclassOptions(base + 1))
    IN  IF Len(keys) > 0
        THEN Defined(<<ClassLine(name, base)>> \o Spacing(opts)
                     \o <<Plain("mapping", base + 1)>>
                     \o [i \in 1..Len(kept) |-> Item(i)]
                     \o <<Plain("mappingEnd", base + 1)>> \o Spacing(opts)
                     \o Flatten([i \in 1..Len(subs) |-> Joined(Sub(i))])
                     \o <<Plain("end", base)>> \o Spacing(opts))
        ELSE Undefined

--------------------------------------------------------------------------
(* JSON.parse(scope.replace(/\.0/g, '.1')).  The grammar is JSON's without *)
(* string escapes and number exponents, which no input of the model holds. *)

\* scope.replace(/\.0/g, '.1')
RECURSIVE ReplaceDotZero(_)
ReplaceDotZero(s) ==
    IF s = <<>> THEN <<>>
    ELSE IF Len(s) >= 2 /\ s[1] = "." /\ s[2] = "0"
    THEN <<".", "1">> \o ReplaceDotZero(SubSeq(s, 3, Len(s)))
    ELSE <<s[1]>> \o ReplaceDotZero(Tail(s))

RECURSIVE DigitsLess(_, _)
DigitsLess(a, b) ==
    IF Len(a) # Len(b) THEN Len(a) < Len(b)
    ELSE IF a = <<>> THEN FALSE
    ELSE IF Head(a) # Head(b) THEN DigitVal(Head(a)) < DigitVal(Head(b))
    ELSE DigitsLess(Tail(a), Tail(b))

\* An integer index (a canonical numeric string below 2^32 - 1): such keys
\* come first, in ascending order, in the own keys of an object.
IsArrayIndex(k) ==
    /\ AllDigits(k)
    /\ Len(k) = 1 \/ k[1] # "0"
    /\ DigitsLess(k, <<"4","2","9","4","9","6","7","2","9","5">>)

\* The place of a new key k among keys
InsertAt(keys, k) ==
    IF IsArrayIndex(k)
    THEN LET later == {i \in 1..Len(keys) :
                          ~IsArrayIndex(keys[i]) \/ DigitsLess(k, keys[i])}
         IN  IF later = {} THEN Len(keys) + 1
             ELSE CHOOSE i \in later : \A j \in later : i <= j
    ELSE Len(keys) + 1

InsertSeq(seq, i, e) == SubSeq(seq, 1, i - 1) \o <<e>> \o SubSeq(seq, i, Len(seq))

\* obj[k] = v as JSON.parse defines a member
ObjPut(obj, k, v) ==
    IF \E i \in 1..Len(obj.keys) : obj.keys[i] = k
    THEN LET i == CHOOSE j \in 1..Len(obj.keys) : obj.keys[j] = k
         IN  JObj(obj.keys, [obj.items EXCEPT ![i] = v])
    ELSE LET i == InsertAt(obj.keys, k)
         IN  JObj(InsertSeq(obj.keys, i, k), InsertSeq(obj.items, i, v))

IsWs(c) == c \in {" ", "\n", "\t", "\r"}

RECURSIVE SkipWs(_, _)
SkipWs(s, i) == IF i <= Len(s) /\ IsWs(s[i]) THEN SkipWs(s, i + 1) ELSE i

Parsed(val, pos) == [ok |-> TRUE, val |-> val, pos |-> pos]

Failed == [ok |-> FALSE, val |-> JNull, pos |-> 0]

HasAt(s, i, lit) == i + Len(lit) - 1 <= Len(s) /\ SubSeq(s, i, i + Len(lit) - 1) = lit

RECURSIVE StripZeros(_)
StripZeros(f) ==
    IF f # <<>> /\ f[Len(f)] = "0" THEN StripZeros(SubSeq(f, 1, Len(f) - 1)) ELSE f

\* The magnitude of a digit string, as hi * 65536 + lo
RECURSIVE Magnitude(_, _, _)
Magnitude(ds, hi, lo) ==
    IF ds = <<>> THEN <<hi, lo>>
    ELSE LET x == lo * 10 + DigitVal(Head(ds))
         IN  Magnitude(Tail(ds), hi * 10 + (x \div 65536), x % 65536)

ParseNumber(s, i) ==
    LET neg == s[i] = "-"
        a == IF neg THEN i + 1 ELSE i
    IN  IF a > Len(s) \/ ~IsDigit(s[a]) THEN Failed
        ELSE LET b == IF s[a] = "0" THEN a ELSE RunEnd(s, a, "digit")
                 m == Magnitude(SubSeq(s, a, b), 0, 0)
             IN  IF b + 1 <= Len(s) /\ s[b + 1] = "."
                 THEN IF b + 2 <= Len(s) /\ IsDigit(s[b + 2])
                      THEN LET c == RunEnd(s, b + 2, "digit")
                           IN  Parsed(JNum(Num(neg, m[1], m[2],
                                               StripZeros(SubSeq(s, b + 2, c)))),
                                      c + 1)
                      ELSE Failed
                 ELSE Parsed(JNum(Num(neg, m[1], m[2], <<>>)), b + 1)

\* The index of the quote that closes the string opened before i, or 0
RECURSIVE CloseQuote(_, _)
CloseQuote(s, i) ==
    IF i > Len(s) \/ s[i] \in {"\\", "\n", "\t", "\r"} THEN 0
    ELSE IF s[i] = "\"" THEN i
    ELSE CloseQuote(s, i + 1)

ParseString(s, i) ==
    LET j == CloseQuote(s, i + 1)
    IN  IF j = 0 THEN Failed ELSE Parsed(JStr(SubSeq(s, i + 1, j - 1)), j + 1)

RECURSIVE ParseValue(_, _)
RECURSIVE ParseElements(_, _, _)
RECURSIVE ParseMembers(_, _, _)

\* The value that starts at i (white space skipped)
ParseValue(s, i0) ==
    LET i == SkipWs(s, i0)
    IN  IF i > Len(s) THEN Failed
        ELSE IF HasAt(s, i, <<"n","u","l","l">>) THEN Parsed(JNull, i + 4)
        ELSE IF HasAt(s, i, <<"t","r","u","e">>) THEN Parsed(JBool(TRUE), i + 4)
        ELSE IF HasAt(s, i, <<"f","a","l","s","e">>) THEN Parsed(JBool(FALSE), i + 5)
        ELSE IF s[i] = "\"" THEN ParseString(s, i)
        ELSE IF s[i] = "-" \/ IsDigit(s[i]) THEN ParseNumber(s, i)
        ELSE IF s[i] = "["
        THEN LET j == SkipWs(s, i + 1)
             IN  IF j <= Len(s) /\ s[j] = "]" THEN Parsed(JArr(<<>>), j + 1)
                 ELSE ParseElements(s, j, <<>>)
        ELSE IF s[i] = "{"
        THEN LET j == SkipWs(s, i + 1)
             IN  IF j <= Len(s) /\ s[j] = "}" THEN Parsed(JObj(<<>>, <<>>), j + 1)
                 ELSE ParseMembers(s, j, JObj(<<>>, <<>>))
        ELSE Failed

\* value (, value)* ]
ParseElements(s, i, acc) ==
    LET r == ParseValue(s, i)
        j == SkipWs(s, r.pos)
    IN  IF ~r.ok \/ j > Len(s) THEN Failed
        ELSE IF s[j] = "]" THEN Parsed(JArr(Append(acc, r.val)), j + 1)
        ELSE IF s[j] = "," THEN ParseElements(s, j + 1, Append(acc, r.val))
        ELSE Failed

\* string : value (, string : value)* }
ParseMembers(s, i0, obj) ==
    LET i == SkipWs(s, i0)
        k == IF i <= Len(s) /\ s[i] = "\"" THEN ParseString(s, i) ELSE Failed
        c == SkipWs(s, k.pos)
        r == IF k.ok /\ c <= Len(s) /\ s[c] = ":" THEN ParseValue(s, c + 1) ELSE Failed
        j == SkipWs(s, r.pos)
    IN  IF ~r.ok \/ j > Len(s) THEN Failed
        ELSE IF s[j] = "}" THEN Parsed(ObjPut(obj, k.val.s, r.val), j + 1)
        ELSE IF s[j] = "," THEN ParseMembers(s, j + 1, ObjPut(obj, k.val.s, r.val))
        ELSE Failed

\* JSON.parse(text): ok is FALSE where it throws SyntaxError
JSONParse(text) ==
    LET r == ParseValue(text, 1)
    IN  IF r.ok /\ SkipWs(text, r.pos) > Len(text) THEN r ELSE Failed

--------------------------------------------------------------------------
(* The text of the output lines *)

RECURSIVE Indent(_)
Indent(level) == IF level <= 0 THEN <<>> ELSE <<"  ">> \o Indent(level - 1)

RenderLine(l) ==
    CASE l.kind = "class" -> Indent(l.indent) \o <<"class ">> \o l.name
      [] l.kind = "mapping" -> Indent(l.indent) \o <<"JSON.mapping({">>
      [] l.kind = "field" ->
             Indent(l.indent) \o l.key \o <<": { ">>
                \o (IF l.hasKey THEN <<"key: \"">> \o l.origKey \o <<"\", ">> ELSE <<>>)
                \o (IF l.nilable THEN <<"nilable: true, ">> ELSE <<>>)
                \o <<"type: ">> \o l.type \o <<" }">>
                \o (IF l.comma THEN <<",">> ELSE <<>>)
      [] l.kind = "mappingEnd" -> Indent(l.indent) \o <<"})">>
      [] l.kind = "end" -> Indent(l.indent) \o <<"end">>
      [] l.kind = "alias" -> <<"alias AutoGenerated = ">> \o l.type
      [] l.kind = "type" -> l.type
      [] OTHER -> <<>>

--------------------------------------------------------------------------
(* The TypeScript implementation: format, crystalType, arrayType,          *)
(* parseScope, parseClass                                                  *)

format(str) ==
    IF str = <<>> THEN <<>>
    ELSE IF AllDigits(str) THEN SnakeCase(<<"n","u","m">> \o str)
    ELSE IF IsDigit(str[1]) THEN SnakeCase(DigitWord(str[1]) \o Tail(str))
    ELSE SnakeCase(str)

\* if (name.charAt(0).match(/[a-z]/)) name = _.upperFirst(_.camelCase(name))
TsClassName(name) ==
    IF name # <<>> /\ IsLower(name[1]) THEN UpperFirst(CamelCase(name)) ELSE name

\* Every line of parseClass's text ends with a line feed.
TsRender(lines) == Flatten([i \in 1..Len(lines) |-> RenderLine(lines[i]) \o <<"\n">>])

\* .join("\n\n") of texts that each end with a line feed
RECURSIVE TsJoin(_)
TsJoin(texts) ==
    IF texts = <<>> THEN <<>>
    ELSE IF Len(texts) = 1 THEN texts[1]
    ELSE texts[1] \o <<Blank, Blank>> \o TsJoin(Tail(texts))

RECURSIVE TsCrystalType(_, _)
RECURSIVE TsArrayType(_, _)
RECURSIVE TsParseScope(_, _)
RECURSIVE TsParseClass(_, _, _, _)

TsCrystalType(val, opts) ==
    IF val.t = "null" THEN <<"JSON::Any">>
    ELSE IF val.t = "string" THEN <<"String">>
    ELSE IF val.t = "number"
    THEN IF IsIntegral(val.num)
         THEN IF NumLess(LowerLimit, val.num) /\ NumLess(val.num, UpperLimit)
              THEN <<"Int32">>
              ELSE <<"Int64">>
         ELSE <<"Float64">>
    ELSE IF val.t = "boolean" THEN <<"Bool">>
    ELSE IF val.t = "array" THEN TsArrayType(val, opts)
    ELSE <<"class">>

TsArrayType(arr, opts) ==
    LET types == [i \in 1..Len(arr.items) |-> TsParseScope(arr.items[i], opts)]
        unique == OrAny(Uniq(types))
    IN  <<"Array(">> \o Join(unique, <<" | ">>) \o <<")">>

TsParseScope(val, opts) ==
    IF val.t = "array" THEN TsArrayType(val, opts)
    ELSE IF val.t = "object"
    THEN TsRender(TsParseClass(opts.baseClassName, val, 0, opts))
    ELSE TsCrystalType(val, opts)

\* The lines of parseClass(name, scope, indentLevel)
TsParseClass(name0, obj, level, opts) ==
    LET name == TsClassName(name0)
        keys == ObjectKeys(obj)
        IsSub(key) == TsCrystalType(Prop(obj, key), opts) = <<"class">>
        Field(i) ==
            LET key == keys[i]
                formattedKey == format(key)
            IN  Line("field", level + 2, <<>>, formattedKey, key,
                     key # formattedKey, opts.allNilable,
                     IF IsSub(key) THEN key ELSE TsParseScope(Prop(obj, key), opts),
                     TRUE)
        subclasses == SelectSeq(keys, IsSub)
    IN  <<ClassLine(name, level), Blank, Plain("mapping", level + 1)>>
           \o [i \in 1..Len(keys) |-> Field(i)]
           \o <<Plain("mappingEnd", level + 1), Blank>>
           \o TsJoin([i \in 1..Len(subclasses) |->
                        TsParseClass(subclasses[i], Prop(obj, subclasses[i]),
                                     level + 1, opts)])
           \o <<Plain("end", level)>>

--------------------------------------------------------------------------
(* The entry points *)

TypeLine(kind, type) == Line(kind, 0, <<>>, <<>>, <<>>, FALSE, FALSE, type, FALSE)

Returned(entry, r) ==
    [entry |-> entry, status |-> "returned", error |-> "", defined |-> r.defined,
     lines |-> r.lines]

Thrown(entry, error) ==
    [entry |-> entry, status |-> "thrown", error |-> error, defined |-> FALSE,
     lines |-> <<>>]

NoResult ==
    [entry |-> "", status |-> "none", error |-> "", defined |-> FALSE, lines |-> <<>>]

\* JsonToCrystal.parse(scope) of the JavaScript implementation
RECURSIVE JsonToCrystalParse(_, _)
JsonToCrystalParse(val, opts) ==
    IF val.t = "string"
    THEN LET data == JSONParse(ReplaceDotZero(val.s))
         IN  IF data.ok THEN JsonToCrystalParse(data.val, opts)
             ELSE Thrown("js.parse", "SyntaxError")
    ELSE IF val.t = "array"
    THEN Returned("js.parse", Defined(<<TypeLine("alias", ArrayToString(val))>>))
    ELSE IF val.t = "object"
    THEN Returned("js.parse",
                  ClassToString(val, opts.baseClassName,
                                [baseIndent |-> 0, ignoreKeys |-> opts.ignoreKeys,
                                 allNilable |-> opts.allNilable,
                                 compact |-> opts.compact]))
    ELSE Thrown("js.parse", "Error: Unsupported data type")

\* parseScope(scope) of the TypeScript implementation
TsScope(entry, val, opts) ==
    IF val.t = "object"
    THEN Returned(entry, Defined(TsParseClass(opts.baseClassName, val, 0, opts)))
    ELSE Returned(entry, Defined(<<TypeLine("type", TsParseScope(val, opts))>>))

\* parse(scope) of the TypeScript implementation
TsParse(text, opts) ==
    LET data == JSONParse(ReplaceDotZero(text))
    IN  IF data.ok THEN TsScope("ts.parse", data.val, opts)
        ELSE Thrown("ts.parse", "SyntaxError")

--------------------------------------------------------------------------
(* The inputs: parsed documents and raw texts, and the options *)

MaxArrLen == 3

MaxKeyLen == 2

MaxPrefix == 12

SeqsUpTo(S, n) == UNION {[1..k -> S] : k \in 0..n}

One == Num(FALSE, 0, 1, <<>>)

Obj1(k, v) == JObj(<<k>>, <<v>>)

KeyId == <<"i","d">>

KeyUser == <<"u","s","e","r">>

Numbers ==
    {Num(neg, hi, lo, frac) : neg \in BOOLEAN, hi \in {0, 32767, 32768},
                              lo \in {0, 1, 65535}, frac \in {<<>>, <<"5">>}}

ScalarInputs ==
    {JNull, JBool(TRUE), JBool(FALSE)} \cup {JNum(n) : n \in Numbers}

NumberDocs ==
    {Obj1(<<"a">>, JNum(n)) : n \in Numbers} \cup {JArr(<<JNum(n)>>) : n \in Numbers}

Elems ==
    {JNull, JNum(One), JStr(<<"x">>), Obj1(<<"a">>, JNum(One)), JArr(<<>>),
     JArr(<<JNum(One)>>)}

ArrayInputs ==
    SeqsUpTo(Elems, MaxArrLen)
       \cup {<<Obj1(<<"a">>, Obj1(<<"b">>, JNum(One)))>>,
             <<Obj1(<<"a">>, JArr(<<JNum(One)>>)), JNum(One)>>,
             <<JArr(<<JNum(One), JStr(<<"x">>)>>), JArr(<<JStr(<<"x">>), JNum(One)>>)>>}

FieldVals ==
    {JBool(TRUE), JObj(<<>>, <<>>), Obj1(KeyId, JNum(One)), JArr(<<JNum(One)>>)}

SmallObjects ==
    {JObj(<<>>, <<>>)}
       \cup {Obj1(k, v) : k \in {<<"a">>, <<"b">>}, v \in FieldVals}
       \cup {JObj(ks, <<v1, v2>>) :
                ks \in {<<<<"a">>, <<"b">>>>, <<<<"b">>, <<"a">>>>},
                v1 \in FieldVals, v2 \in FieldVals}

ScenarioDocs ==
    {JObj(<<KeyId, <<"n","a","m","e">>, <<"t","a","g","s">>>>,
          <<JNum(One), JStr(<<"a">>),
            JArr(<<JNum(One), JStr(<<"x">>), JNum(One)>>)>>),
     Obj1(<<"1","a","b","c">>, JBool(TRUE)),
     Obj1(KeyUser, Obj1(KeyId, JNum(One))),
     Obj1(<<"v","a","l","s">>, JArr(<<JNull, JNull>>)),
     Obj1(<<"a">>, Obj1(<<"b">>, Obj1(<<"c">>, JObj(<<>>, <<>>)))),
     JObj(<<<<"1">>, <<"b">>, KeyUser>>,
          <<Obj1(<<"x">>, JNull), JNum(One), Obj1(KeyId, Obj1(<<"a">>, JNum(One)))>>)}

KeyAlphabet == {"a", "B", "1", "_"}

KeyStrings ==
    SeqsUpTo(KeyAlphabet, MaxKeyLen)
       \cup {KeyUser, <<"1","a","b","c">>, <<"a",".","0">>, <<"u","s","e","r","N","a","m","e">>}

KeyDocs ==
    {Obj1(k, JBool(TRUE)) : k \in KeyStrings}
       \cup {Obj1(k, Obj1(KeyId, JNum(One))) : k \in KeyStrings}

\* JSON.stringify, which writes the texts of the model
RECURSIVE Decimal(_)
Decimal(n) ==
    IF n < 10 THEN <<DigitChars[n + 1]>>
    ELSE Decimal(n \div 10) \o <<DigitChars[(n % 10) + 1]>>

Quoted(s) == <<"\"">> \o s \o <<"\"">>

RECURSIVE Stringify(_)
Stringify(v) ==
    CASE v.t = "null" -> <<"n","u","l","l">>
      [] v.t = "boolean" -> IF v.b THEN <<"t","r","u","e">> ELSE <<"f","a","l","s","e">>
      [] v.t = "number" ->
             (IF IsNegative(v.num) THEN <<"-">> ELSE <<>>) \o Decimal(v.num.lo)
                \o (IF v.num.frac = <<>> THEN <<>> ELSE <<".">> \o v.num.frac)
      [] v.t = "string" -> Quoted(v.s)
      [] v.t = "array" ->
             <<"[">> \o Join([i \in 1..Len(v.items) |-> Stringify(v.items[i])], <<",">>)
                \o <<"]">>
      [] v.t = "object" ->
             <<"{">> \o Join([i \in 1..Len(v.keys) |->
                                Quoted(v.keys[i]) \o <<":">> \o Stringify(v.items[i])],
                             <<",">>)
                \o <<"}">>

TextDocs ==
    ScenarioDocs
       \cup {JNull, JBool(TRUE), JNum(One), JNum(Num(TRUE, 0, 1, <<"5">>)),
             JStr(<<"a">>), JStr(<<"1">>), JArr(<<JNum(One), JNull>>),
             Obj1(<<"a",".","0">>, JBool(TRUE)),
             Obj1(<<"b">>, Obj1(<<"a",".","0","1">>, JNum(One))),
             JObj(<<<<"a">>, <<"b">>>>, <<JObj(<<>>, <<>>), JNum(One)>>)}

\* The beginnings of a text, cut off after at most MaxPrefix characters
Prefixes(txt) ==
    {SubSeq(txt, 1, n) : n \in 0..(IF Len(txt) < MaxPrefix THEN Len(txt) ELSE MaxPrefix)}

Texts ==
    {Stringify(d) : d \in TextDocs}
       \cup UNION {Prefixes(Stringify(d)) : d \in TextDocs}
       \cup {<<"2",".","0">>, <<"[","1",".","0",",","1","]">>,
             <<"{","\"","b","\"",":","1",",","\"","b","\"",":","{","}",",",
               "\"","1","\"",":","2",".","5","}">>,
             <<" ","{"," ","\"","a","\""," ",":"," ","[","]"," ","}">>}

\* A value JavaScript can hold: the keys of an object are distinct and the
\* integer indices come first, in ascending order.
RECURSIVE IsValue(_)
IsValue(v) ==
    /\ \A i \in 1..Len(v.items) : IsValue(v.items[i])
    /\ \A i, j \in 1..Len(v.keys) :
          i < j => /\ v.keys[i] # v.keys[j]
                   /\ IsArrayIndex(v.keys[j]) =>
                         IsArrayIndex(v.keys[i]) /\ DigitsLess(v.keys[i], v.keys[j])

Options ==
    [baseClassName : {<<"A","u","t","o","G","e","n","e","r","a","t","e","d">>,
                      <<"r","o","o","t">>},
     allNilable : BOOLEAN, compact : BOOLEAN, ignoreKeys : {{}, {<<"b">>}}]

DefaultOptions ==
    [baseClassName |-> <<"A","u","t","o","G","e","n","e","r","a","t","e","d">>,
     allNilable |-> FALSE, compact |-> FALSE, ignoreKeys |-> {}]

ArrayOptions == {DefaultOptions, [DefaultOptions EXCEPT !.allNilable = TRUE]}

Documents == ScalarInputs \cup NumberDocs \cup SmallObjects \cup ScenarioDocs \cup KeyDocs

--------------------------------------------------------------------------
(* The state machine: one call of an entry point on one input *)

Init ==
    /\ \/ /\ scope \in {JArr(a) : a \in ArrayInputs}
          /\ options \in ArrayOptions
       \/ /\ scope \in {d \in Documents : IsValue(d)} \cup {JStr(txt) : txt \in Texts}
          /\ options \in Options
    /\ pc = "start"
    /\ result = NoResult

\* new JsonToCrystal(options).parse(scope), JavaScript
Parse ==
    /\ pc = "start"
    /\ result' = JsonToCrystalParse(scope, options)
    /\ pc' = "done"
    /\ UNCHANGED <<scope, options>>

\* new JsonToCrystal(options).parse(scope), TypeScript
ParseText ==
    /\ pc = "start"
    /\ scope.t = "string"
    /\ result' = TsParse(scope.s, options)
    /\ pc' = "done"
    /\ UNCHANGED <<scope, options>>

\* new JsonToCrystal(options).parseScope(scope), TypeScript
ParseScope ==
    /\ pc = "start"
    /\ result' = TsScope("ts.parseScope", scope, options)
    /\ pc' = "done"
    /\ UNCHANGED <<scope, options>>

Next == Parse \/ ParseText \/ ParseScope

Spec == Init /\ [][Next]_vars

--------------------------------------------------------------------------
(* What the properties speak of *)

Done == pc = "done"

HasReturned == Done /\ result.status = "returned"

\* The input is raw text, which the entry point parses
InputIsText == scope.t = "string" /\ result.entry \in {"js.parse", "ts.parse"}

\* The input document as given: the value, or what the text says
Document == IF InputIsText THEN JSONParse(scope.s).val ELSE scope

DocumentOk == InputIsText => JSONParse(scope.s).ok

\* The value the synthesizers receive
Seen == IF InputIsText THEN JSONParse(ReplaceDotZero(scope.s)).val ELSE scope

SeenOk == InputIsText => JSONParse(ReplaceDotZero(scope.s)).ok

LineIdx == 1..Len(result.lines)

FieldIdx == {i \in LineIdx : result.lines[i].kind = "field"}

ClassIdx == {i \in LineIdx : result.lines[i].kind = "class"}

EndIdx == {i \in LineIdx : result.lines[i].kind = "end"}

HasKey(obj, k) == \E i \in 1..Len(obj.keys) : obj.keys[i] = k

\* The fields of the objects of a document, with the depth of the object
RECURSIVE FieldsOf(_, _)
FieldsOf(v, depth) ==
    IF v.t # "object" THEN {}
    ELSE {[depth |-> depth, key |-> v.keys[i], val |-> v.items[i]] :
             i \in 1..Len(v.keys)}
            \cup UNION {FieldsOf(v.items[i], depth + 1) : i \in 1..Len(v.items)}

--------------------------------------------------------------------------
(* C1 *)

InInt32Range(n) == ~NumLess(n, LowerLimit) /\ ~NumLess(UpperLimit, n)

ClaimedNumberType(n) ==
    IF ~IsIntegral(n) THEN "Float64"
    ELSE IF InInt32Range(n) THEN "Int32"
    ELSE "Int64"

\* C1: the type inferred for a number is Int32 for every integral n with
\* -2147483648 <= n <= 2147483647 (both bounds included), Int64 for every
\* other integral n and Float64 for every number with a fraction; the number
\* is the input itself, the only element of an array or the value of a field.
C1_NumberTypes ==
    HasReturned /\ result.defined =>
       /\ scope.t = "number" =>
             result.lines[1].type = <<ClaimedNumberType(scope.num)>>
       /\ scope.t = "array" /\ Len(scope.items) = 1 /\ scope.items[1].t = "number" =>
             result.lines[1].type
                = <<"Array(", ClaimedNumberType(scope.items[1].num), ")">>
       /\ scope.t = "object" =>
             \A i \in FieldIdx :
                LET l == result.lines[i]
                IN  /\ l.indent = 2
                    /\ HasKey(scope, l.origKey)
                    /\ Prop(scope, l.origKey).t = "number"
                    => l.type = <<ClaimedNumberType(Prop(scope, l.origKey).num)>>

--------------------------------------------------------------------------
(* C2 *)

\* The members of a union: the tokens between "Array(" and its ")" cut at
\* the " | " that are not inside a nested type
RECURSIVE Split(_, _, _, _)
Split(toks, depth, cur, acc) ==
    IF toks = <<>> THEN Append(acc, cur)
    ELSE LET tok == Head(toks)
         IN  IF tok = " | " /\ depth = 0
             THEN Split(Tail(toks), depth, <<>>, Append(acc, cur))
             ELSE Split(Tail(toks),
                        IF tok \in {"Array(", "NamedTuple("} THEN depth + 1
                        ELSE IF tok = ")" THEN depth - 1
                        ELSE depth,
                        Append(cur, tok), acc)

Members(type) == Split(SubSeq(type, 2, Len(type) - 1), 0, <<>>, <<>>)

\* The type of one element of an array, by the entry point that was called
ElementType(v) ==
    IF result.entry = "js.parse"
    THEN IF crystalType(v) = "class" THEN NamedTupleToString(v)
         ELSE IF crystalType(v) = "array" THEN ArrayToString(v)
         ELSE <<crystalType(v)>>
    ELSE TsParseScope(v, options)

FirstWith(arr, text) ==
    CHOOSE i \in 1..Len(arr.items) :
       /\ Str(ElementType(arr.items[i])) = text
       /\ \A j \in 1..(i - 1) : Str(ElementType(arr.items[j])) # text

UnionOf(arr, type) ==
    LET m == Members(type)
    IN  /\ Len(type) >= 3 /\ type[1] = "Array(" /\ type[Len(type)] = ")"
        /\ Len(m) >= 1
        /\ \A p, q \in 1..Len(m) : p # q => Str(m[p]) # Str(m[q])
        /\ IF arr.items = <<>> THEN m = <<<<"JSON::Any">>>>
           ELSE /\ \A i \in 1..Len(arr.items) :
                      \E p \in 1..Len(m) : Str(m[p]) = Str(ElementType(arr.items[i]))
                /\ \A p \in 1..Len(m) :
                      \E i \in 1..Len(arr.items) :
                         Str(m[p]) = Str(ElementType(arr.items[i]))
                /\ \A p, q \in 1..Len(m) :
                      p < q => FirstWith(arr, Str(m[p])) < FirstWith(arr, Str(m[q]))

\* C2: the type of every array, the input itself or the value of a field,
\* is Array(U), U being the types of its elements in the order of their first
\* occurrence, each once, and the single member JSON::Any for the empty
\* array: U is never empty and repeats no member.
C2_ArrayUnion ==
    HasReturned /\ result.defined =>
       /\ scope.t = "array" => UnionOf(scope, result.lines[1].type)
       /\ scope.t = "object" =>
             \A i \in FieldIdx :
                LET l == result.lines[i]
                IN  /\ l.indent = 2
                    /\ HasKey(scope, l.origKey)
                    /\ Prop(scope, l.origKey).t = "array"
                    => UnionOf(Prop(scope, l.origKey), l.type)

\* [1, "x", 1] has become Array(Int32 | String)
C2_Witness ==
    /\ HasReturned
    /\ scope = JArr(<<JNum(One), JStr(<<"x">>), JNum(One)>>)
    /\ result.lines[1].type = <<"Array(", "Int32", " | ", "String", ")">>

--------------------------------------------------------------------------
(* C3 *)

\* C3: the type written in the entry of a field whose value is an object is
\* the name a subclass is declared under, and it is the CamelCase form of
\* the key.
C3_SubclassName ==
    HasReturned /\ result.defined /\ SeenOk /\ Seen.t = "object" =>
       \A i \in FieldIdx :
          LET l == result.lines[i]
          IN  /\ l.indent = 2
              /\ HasKey(Seen, l.origKey)
              /\ Prop(Seen, l.origKey).t = "object"
              => /\ \E c \in ClassIdx :
                       /\ result.lines[c].indent = 1
                       /\ result.lines[c].name = l.type
                 /\ l.type \in {UpperFirst(CamelCase(l.origKey)),
                                UpperFirst(CamelCase(l.key))}

--------------------------------------------------------------------------
(* C4 *)

\* C4: a field entry carries key: "<originalKey>" exactly when the formatted
\* key differs from the original one, and the annotated string is a key of
\* the input document, given parsed or as raw text, at the depth of the entry.
C4_KeyAnnotation ==
    HasReturned /\ DocumentOk /\ Document.t = "object" =>
       \A i \in FieldIdx :
          LET l == result.lines[i]
          IN  /\ l.hasKey <=> l.key # l.origKey
              /\ l.hasKey =>
                    \E f \in FieldsOf(Document, 0) :
                       f.depth + 2 = l.indent /\ f.key = l.origKey

--------------------------------------------------------------------------
(* C5 *)

\* C5: with allNilable every field entry of every class of the output, at
\* any depth, carries nilable: true, and without it none does.
C5_AllNilable ==
    HasReturned => \A i \in FieldIdx : result.lines[i].nilable = options.allNilable

--------------------------------------------------------------------------
(* C6 *)

IsCamelCase(s) ==
    /\ s # <<>>
    /\ IsUpper(s[1])
    /\ \A i \in 1..Len(s) : IsUpper(s[i]) \/ IsLower(s[i]) \/ IsDigit(s[i])

IsSnakeCase(s) ==
    /\ s # <<>>
    /\ ~IsDigit(s[1])
    /\ \A i \in 1..Len(s) : IsLower(s[i]) \/ IsDigit(s[i]) \/ s[i] = "_"

\* C6: for every object input, every class name of the output is a CamelCase
\* identifier and every field key a snake_case identifier.
C6_Identifiers ==
    HasReturned /\ SeenOk /\ Seen.t = "object" =>
       /\ \A i \in ClassIdx : IsCamelCase(result.lines[i].name)
       /\ \A i \in FieldIdx : IsSnakeCase(result.lines[i].key)

--------------------------------------------------------------------------
(* C7 *)

ScalarTypes(t) ==
    CASE t = "null" -> {"JSON::Any"}
      [] t = "boolean" -> {"Bool"}
      [] t = "number" -> {"Int32", "Int64", "Float64"}
      [] OTHER -> {"String"}

\* C7: no JSON value makes the entry point fail with the unsupported-type
\* error, and for a scalar (null, boolean, number) it returns the scalar's type.
C7_Dispatch ==
    Done =>
       /\ result.error # "Error: Unsupported data type"
       /\ scope.t \in {"null", "boolean", "number"} =>
             /\ result.status = "returned"
             /\ Len(result.lines) = 1
             /\ \E ty \in ScalarTypes(scope.t) : result.lines[1].type = <<ty>>

--------------------------------------------------------------------------
(* C8 *)

\* C8: raw text that is not JSON after the rewrite makes parse fail with
\* JsonParseError and nothing else, and no text is produced.
C8_ParseError ==
    Done /\ InputIsText /\ ~SeenOk =>
       /\ result.status = "thrown"
       /\ result.error = "JsonParseError"
       /\ result.lines = <<>>

--------------------------------------------------------------------------
(* C9 *)

\* The objects of a document that are reached through fields only
RECURSIVE CountObjects(_)
CountObjects(v) ==
    IF v.t # "object" THEN 0
    ELSE LET Sum[i \in 0..Len(v.items)] ==
                 IF i = 0 THEN 0 ELSE Sum[i - 1] + CountObjects(v.items[i])
         IN  1 + Sum[Len(v.items)]

\* The members of a set of line indices, in ascending order
RECURSIVE Ascending(_)
Ascending(S) ==
    IF S = {} THEN <<>>
    ELSE LET m == CHOOSE i \in S : \A j \in S : i <= j
         IN  <<m>> \o Ascending(S \ {m})

\* The end line that closes the class opened at line c
ClosingEnd(c) ==
    LET later == {e \in EndIdx : e > c /\ result.lines[e].indent = result.lines[c].indent}
    IN  IF later = {} THEN 0 ELSE CHOOSE e \in later : \A x \in later : e <= x

\* The keys of the field entries of the class opened at line c
KeysOfClass(c) ==
    LET inside == {i \in FieldIdx :
                      /\ c < i /\ i < ClosingEnd(c)
                      /\ result.lines[i].indent = result.lines[c].indent + 2}
        idx == Ascending(inside)
    IN  [n \in 1..Len(idx) |-> result.lines[idx[n]].origKey]

\* C9: for every object input (no key being ignored) the top-level class is
\* emitted and closed; every field, at any depth, whose value is an object
\* has exactly one subclass declaration, opened by a class line and closed by
\* an end line, after the field entries of its parent; and the subclasses of
\* the top-level class come in the order of their keys.
C9_Subclasses ==
    HasReturned /\ SeenOk /\ Seen.t = "object" /\ options.ignoreKeys = {} =>
       LET children == Ascending({c \in ClassIdx : result.lines[c].indent = 1})
           subs == SelectSeq(Seen.items, LAMBDA v : v.t = "object")
       IN  /\ result.defined
           /\ 1 \in ClassIdx /\ result.lines[1].indent = 0
           /\ ClosingEnd(1) # 0
           /\ Cardinality(ClassIdx) = CountObjects(Seen)
           /\ Cardinality(EndIdx) = CountObjects(Seen)
           /\ \A c \in ClassIdx : ClosingEnd(c) # 0
           /\ \A c \in ClassIdx, i \in FieldIdx :
                 result.lines[c].indent = 1 /\ result.lines[i].indent = 2 => i < c
           /\ Len(children) = Len(subs)
           /\ \A n \in 1..Len(children) :
                 n <= Len(subs) => KeysOfClass(children[n]) = ObjectKeys(subs[n])

--------------------------------------------------------------------------
(* C10 *)

\* C10: every type written in the output is a resolved type; the
\* discriminators 'class' and 'array' of crystalType are never written as a type.
C10_ResolvedTypes ==
    HasReturned =>
       \A i \in LineIdx :
          \A n \in 1..Len(result.lines[i].type) :
             result.lines[i].type[n] \notin {"class", "array"}

====
